---- MODULE Spec2Model ----
(***************************************************************************)
(* Subscription state synchronisation of the financial-data-analyst app.   *)
(*                                                                         *)
(* The model follows the webhook handler POST of                           *)
(* src/app/api/stripe-webhook/route.ts (lines 48-199), the subscriptions   *)
(* table it writes through the Supabase client, and the access predicate   *)
(* isSubscriptionActive of src/lib/utils.ts.                               *)
(*                                                                         *)
(* A handler invocation suspends when it reads the request body and at its *)
(* database call, so one invocation is up to three steps: Receive (the     *)
(* body is read), Handle (verify, classify, build the database call, or    *)
(* answer at once) and the return of the database call (DbApply or         *)
(* DbError), after which the response is sent.                             *)
(*                                                                         *)
(* Beside that handler the model carries the acknowledge-then-process      *)
(* handler of src/unnamed/part_011, the two handlers with a duplicate      *)
(* guard (src/unnamed/part_007 and the POST kept in                        *)
(* src/app/auth/callback/route.ts), the middleware of src/middleware.ts    *)
(* and the OAuth callback GET of src/app/auth/callback/route.ts, the      *)
(* checkout session POST of src/app/api/create-checkout-session/route.ts   *)
(* with the variant kept in the callback route file, and the redirects of  *)
(* the login and dashboard pages.  Each specification at the end of the    *)
(* model runs one of these groups.                                         *)
(***************************************************************************)
EXTENDS FiniteSets, Integers, Sequences, TLC

VARIABLES
    subscriptions,   \* rows of the 'subscriptions' table
    now,             \* wall clock, in ticks of TickMs milliseconds
    handler,         \* handler[h]: position of invocation slot h
    response,        \* response[h]: the last HTTP response slot h has sent
    console,         \* console[h]: the lines the last invocation of h logged
    activeCheck,     \* outcome of the last isSubscriptionActive call
    session,         \* the browser's Supabase session: Null or Some(user id)
    page,            \* the browser's last request to a page route and its answer
    processedEvents, \* the module-level Set of the guarded handler
    guard,           \* guard[g]: output of the handlers that carry a duplicate guard
    checkout,        \* the last POST for a checkout session and its outcome
    provider,        \* the checkout sessions created at the payment provider
    nav              \* the browser's navigation: where its chain of redirects is

vars == <<subscriptions, now, handler, response, console, activeCheck, session, page,
          processedEvents, guard, checkout, provider, nav>>

\* the state of the checkout flow
checkoutVars == <<checkout, provider>>

\* the state of the handlers that carry a duplicate guard
guardVars == <<processedEvents, guard>>

\* the state of the browser
browserVars == <<session, page>>

----------------------------------------------------------------------------
(* Bounds *)

\* the clock stops after MaxTicks ticks
MaxTicks == 2
\* one tick of the clock, in milliseconds
TickMs == 1500
\* largest epoch-seconds value carried by an event
MaxEpoch == 3
\* deliveries a guarded handler takes before the model stops it
MaxDeliveries == 3
\* checkout sessions the provider holds before the model stops creating them
MaxSessions == 2

----------------------------------------------------------------------------
(* Values *)

\* JSON null / SQL NULL
Null == <<>>
\* a present value of a nullable number field
Some(v) == <<v>>

Users == {"u1", "u2"}
\* metadata.userId of a subscription object; "" stands for an absent
\* (undefined) or empty value, both of which are falsy
NoUserId == ""
MetadataUserIds == Users \cup {NoUserId}

Handlers == {"h1", "h2"}

\* the endpoint's signing secret, process.env.STRIPE_WEBHOOK_SECRET
WebhookSecret == "whsec_live"
Secrets == {WebhookSecret, "whsec_other"}

\* milliseconds since the epoch of the current clock reading: new Date()
NowMs == now * TickMs

\* JavaScript truthiness of a nullable number: null and 0 are falsy
TruthyNumber(x) == x # Null /\ x[1] # 0
\* JavaScript truthiness of a string: undefined and "" are falsy
TruthyString(s) == s # NoUserId

\* Date.prototype.toISOString: the UTC text of an instant, to the
\* millisecond; the text is kept as <<whole seconds, milliseconds>>
toISOString(ms) == <<ms \div 1000, ms % 1000>>
\* new Date(text).getTime() of such a text
DateParse(iso) == iso[1] * 1000 + iso[2]

----------------------------------------------------------------------------
(* Events of the payment provider *)

SubscriptionEventTypes ==
    {"customer.subscription.created", "customer.subscription.updated"}
DeletedEventType == "customer.subscription.deleted"
OtherEventTypes == {"invoice.payment_failed", "payment_intent.succeeded"}

\* identifiers and plan of a provider subscription
FirstContract == [id |-> "sub_1", customer |-> "cus_1", items |-> <<"price_a">>]
SecondContract ==
    [id |-> "sub_2", customer |-> "cus_2", items |-> <<"price_b", "price_a">>]

\* a Stripe.Subscription object, with the fields the handler reads;
\* timestamps are epoch seconds, nullable ones Null or Some(t)
Subscription(u, contract, status, periodStart, cancelAtPeriodEnd, canceledAt, cancelAt) ==
    [ id |-> contract.id, customer |-> contract.customer, items |-> contract.items,
      status |-> status,
      current_period_start |-> periodStart, current_period_end |-> periodStart + 1,
      cancel_at_period_end |-> cancelAtPeriodEnd,
      canceled_at |-> canceledAt, cancel_at |-> cancelAt,
      metadata |-> [userId |-> u] ]

\* the provider-side states a subscription of user u is reported in: a
\* running one, the same one a period later with a cancellation scheduled
\* for the period end, and a later subscription on another plan that is
\* past due.  The provider's timestamps are instants of its own lifetime,
\* so every epoch-seconds value is positive (1 .. MaxEpoch).
SubscriptionObjectsOf(u) ==
    { Subscription(u, FirstContract, "active", MaxEpoch - 2, FALSE, Null, Null),
      Subscription(u, FirstContract, "active", MaxEpoch - 1, TRUE,
                   Some(MaxEpoch - 1), Some(MaxEpoch)),
      Subscription(u, SecondContract, "past_due", MaxEpoch - 1, FALSE,
                   Null, Some(MaxEpoch)) }

SubscriptionObjects == UNION { SubscriptionObjectsOf(u) : u \in MetadataUserIds }

\* the subscription object of a deleted event: the ended subscription
EndedObjects ==
    { Subscription(u, FirstContract, "canceled", MaxEpoch - 1, FALSE,
                   Some(MaxEpoch), Null) : u \in MetadataUserIds }

\* the object of an event of another type (an invoice, a payment intent)
OtherObjects ==
    { [id |-> "obj_1", customer |-> "cus_1", metadata |-> [userId |-> u]] :
        u \in {"u1", NoUserId} }

Events ==
    [type : SubscriptionEventTypes, object : SubscriptionObjects]
    \cup [type : {DeletedEventType}, object : EndedObjects]
    \cup [type : OtherEventTypes, object : OtherObjects]

----------------------------------------------------------------------------
(* Requests and signature verification *)

\* the stripe-signature header: absent, or a signature that the holder of
\* 'secret' computed over the bytes 'payload'
NoSignature == [present |-> FALSE]
Sign(payload, secret) == [present |-> TRUE, payload |-> payload, secret |-> secret]

\* bodies a forged or altered request was originally signed for
TamperSources == [type : {"payment_intent.succeeded"}, object : OtherObjects]

SignaturesFor(body) ==
    {NoSignature}
    \cup { Sign(body, s) : s \in Secrets }
    \cup { Sign(b, WebhookSecret) : b \in TamperSources \ {body} }

\* a POST request: the raw body (the bytes of one event) and the header
Requests ==
    UNION { { [rawBody |-> e, signature |-> g] : g \in SignaturesFor(e) } : e \in Events }

\* a verification that checks the secret but not the bytes that were signed
constructEventAnyBody(rawBody, signature, secret) ==
    signature.secret = secret

\* stripe.webhooks.constructEvent(rawBody, signature, secret) returns the
\* event exactly when the signature was computed over the raw body with the
\* endpoint's secret; otherwise it throws
constructEvent(rawBody, signature, secret) ==
    /\ signature.payload = rawBody
    /\ signature.secret = secret

----------------------------------------------------------------------------
(* The subscriptions table, as the Supabase client calls act on it *)

\* a row after an UPDATE of the columns that 'values' names
ApplyColumns(r, values) ==
    [c \in DOMAIN r |-> IF c \in DOMAIN values THEN values[c] ELSE r[c]]

RowsOf(rows, userId) == { r \in rows : r.user_id = userId }

\* the outcome of a database call: the table afterwards and the error
\* returned to the client (Null: none)
Done(rows) == [rows |-> rows, error |-> Null]
Failed(rows, error) == [rows |-> rows, error |-> error]

\* a plain INSERT: user_id is a unique column, so a second row for a user
\* is refused with a unique violation (Postgres 23505)
insert(rows, values) ==
    IF RowsOf(rows, values.user_id) # {}
    THEN Failed(rows, <<"23505">>)
    ELSE Done(rows \cup {values})

\* an update without its .match filter: every row is written
updateAllRows(rows, values, userId) ==
    Done({ ApplyColumns(r, values) : r \in rows })

\* .update(values).match({ user_id }): UPDATE ... WHERE user_id = userId;
\* matching no row is no error
update(rows, values, userId) ==
    Done({ IF r.user_id = userId THEN ApplyColumns(r, values) ELSE r : r \in rows })

\* an insert into a table without a conflict key: every write adds a row
upsertAlwaysInsert(rows, values) == Done(rows \cup {values})

\* an insert without the ON CONFLICT clause
upsertPlainInsert(rows, values) == insert(rows, values)

\* an upsert whose conflict key is the provider's subscription id
upsertOnSubscriptionId(rows, values) ==
    IF \E r \in rows : r.stripe_subscription_id = values.stripe_subscription_id
    THEN Done({ IF r.stripe_subscription_id = values.stripe_subscription_id
                THEN ApplyColumns(r, values) ELSE r : r \in rows })
    ELSE Done(rows \cup {values})

\* an upsert that keeps the stored value of a nullable column when the new
\* value is null
upsertSkippingNulls(rows, values) ==
    IF RowsOf(rows, values.user_id) # {}
    THEN Done({ IF r.user_id = values.user_id
                THEN [c \in DOMAIN r |->
                        IF c \in {"canceled_at", "cancel_at"} /\ values[c] = Null
                        THEN r[c]
                        ELSE values[c]]
                ELSE r : r \in rows })
    ELSE insert(rows, values)

\* .upsert(values, { onConflict: 'user_id' }): INSERT ... ON CONFLICT
\* (user_id) DO UPDATE SET the given columns, one statement of the database
upsert(rows, values) ==
    IF RowsOf(rows, values.user_id) # {}
    THEN update(rows, values, values.user_id)
    ELSE insert(rows, values)

\* a cancellation that removes the user's row instead of marking it
ExecuteCallHardDelete(rows, call) ==
    IF call.op = "upsert"
    THEN upsert(rows, call.values)
    ELSE Done(rows \ RowsOf(rows, call.match))

\* the effect of a database call on the table
ExecuteCall(rows, call) ==
    IF call.op = "upsert"
    THEN upsert(rows, call.values)
    ELSE update(rows, call.values, call.match)

\* the call does not reach the database, or the database is down
Unavailable(rows) == Failed(rows, <<"fetch failed">>)

----------------------------------------------------------------------------
(* POST of src/app/api/stripe-webhook/route.ts *)

NoResponse == [status |-> 0, body |-> [none |-> TRUE]]
Received == [status |-> 200, body |-> [received |-> TRUE]]
ErrorResponse(message) == [status |-> 400, body |-> [error |-> message]]

Idle == [pc |-> "idle"]

\* a conversion that takes the epoch seconds for milliseconds
NullableISOFromMillis(x) == IF TruthyNumber(x) THEN toISOString(x[1]) ELSE Null

\* the ISO text of a nullable epoch-seconds field: x ? new Date(x * 1000)
\* .toISOString() : null
NullableISO(x) == IF TruthyNumber(x) THEN toISOString(x[1] * 1000) ELSE Null

\* a values object whose period bounds are taken from each other's field
SubscriptionValuesSwappedPeriod(subscription, userId, nowMs) ==
    [ user_id |-> userId,
      stripe_subscription_id |-> subscription.id,
      stripe_customer_id |-> subscription.customer,
      status |-> subscription.status,
      price_id |-> subscription.items[1],
      current_period_start |-> toISOString(subscription.current_period_end * 1000),
      current_period_end |-> toISOString(subscription.current_period_start * 1000),
      cancel_at_period_end |-> subscription.cancel_at_period_end,
      canceled_at |-> NullableISO(subscription.canceled_at),
      cancel_at |-> NullableISO(subscription.cancel_at),
      updated_at |-> toISOString(nowMs) ]

\* the values object of the upsert, lines 123-140
SubscriptionValues(subscription, userId, nowMs) ==
    [ user_id |-> userId,
      stripe_subscription_id |-> subscription.id,
      stripe_customer_id |-> subscription.customer,
      status |-> subscription.status,
      price_id |-> subscription.items[1],
      current_period_start |-> toISOString(subscription.current_period_start * 1000),
      current_period_end |-> toISOString(subscription.current_period_end * 1000),
      cancel_at_period_end |-> subscription.cancel_at_period_end,
      canceled_at |-> NullableISO(subscription.canceled_at),
      cancel_at |-> NullableISO(subscription.cancel_at),
      updated_at |-> toISOString(nowMs) ]

\* a cancellation that stamps the row but leaves its status
CancellationValuesKeepingStatus(nowMs) ==
    [ canceled_at |-> toISOString(nowMs),
      updated_at |-> toISOString(nowMs) ]

\* the values object of the cancellation update, lines 175-179
CancellationValues(nowMs) ==
    [ status |-> "canceled",
      canceled_at |-> toISOString(nowMs),
      updated_at |-> toISOString(nowMs) ]

\* console lines; the two request dumps that open every invocation
\* (lines 54 and 66) are left out
Log(text) == <<"log", text>>
Error(text) == <<"error", text>>

\* the catch block, lines 190-198
Thrown(message) ==
    [ respond |-> TRUE,
      response |-> ErrorResponse("Webhook Error"),
      lines |-> << <<"error", "Webhook error:", message>> >> ]

\* a switch whose cancellation branch also takes every unlisted type
ClassifyDefaultCancel(type) ==
    IF type \in SubscriptionEventTypes THEN "sync" ELSE "cancel"

\* the switch on event.type, lines 87-89 and 166: the branch taken
Classify(type) ==
    IF type \in SubscriptionEventTypes THEN "sync"
    ELSE IF type = DeletedEventType THEN "cancel"
    ELSE "none"

\* what POST does with a request up to its first database call: it either
\* answers at once or issues one call
Dispatch(req, nowMs) ==
    IF ~req.signature.present
    THEN Thrown("No stripe signature found")
    ELSE IF ~constructEvent(req.rawBody, req.signature, WebhookSecret)
    THEN Thrown("signature verification failed")
    ELSE LET event == req.rawBody
             verified == << <<"log", "Event verified:", event.type>> >>
         IN  IF Classify(event.type) = "sync"
             THEN LET userId == event.object.metadata.userId
                  IN  IF ~TruthyString(userId)
                      THEN [ respond |-> TRUE,
                             response |-> ErrorResponse("No user ID found"),
                             lines |-> verified \o
                                       <<Error("No user ID found in webhook")>> ]
                      ELSE [ respond |-> FALSE,
                             call |-> [op |-> "upsert",
                                       values |-> SubscriptionValues(event.object,
                                                                     userId, nowMs)],
                             lines |-> verified \o
                                       <<Log("Processing subscription:"),
                                         Log("Attempting database upsert:")>> ]
             ELSE IF Classify(event.type) = "cancel"
             THEN LET canceledUserId == event.object.metadata.userId
                  IN  IF TruthyString(canceledUserId)
                      THEN [ respond |-> FALSE,
                             call |-> [op |-> "update", match |-> canceledUserId,
                                       values |-> CancellationValues(nowMs)],
                             lines |-> verified ]
                      ELSE [ respond |-> TRUE, response |-> Received,
                             lines |-> verified ]
             ELSE [ respond |-> TRUE, response |-> Received, lines |-> verified ]

\* the response after the database call returned, lines 145-164, 182-189
ResponseAfter(call, error) ==
    IF call.op = "upsert" /\ error # Null
    THEN ErrorResponse("Failed to update subscription")
    ELSE Received

\* the lines logged after the database call returned
LinesAfter(call, error) ==
    IF call.op = "upsert"
    THEN IF error # Null
         THEN <<Error("Database upsert failed:"), Error("Subscription update failed:")>>
         ELSE <<Log("Database upsert successful:"),
                Log("Subscription updated successfully")>>
    ELSE IF error # Null
         THEN <<Error("Subscription cancellation failed:")>>
         ELSE <<>>

\* a request reaches slot h and its body is read, line 51
Receive(h, req) ==
    /\ handler[h] = Idle
    /\ handler' = [handler EXCEPT ![h] = [pc |-> "received", request |-> req]]
    /\ response' = [response EXCEPT ![h] = NoResponse]
    /\ console' = [console EXCEPT ![h] = <<>>]
    /\ UNCHANGED <<subscriptions, now, activeCheck, browserVars, guardVars, checkoutVars, nav>>

\* slot h verifies and classifies its request, lines 59-142 and 166-180:
\* it answers at once or issues its database call
Handle(h) ==
    /\ handler[h].pc = "received"
    /\ LET d == Dispatch(handler[h].request, NowMs)
       IN  /\ console' = [console EXCEPT ![h] = d.lines]
           /\ IF d.respond
              THEN /\ response' = [response EXCEPT ![h] = d.response]
                   /\ handler' = [handler EXCEPT ![h] = Idle]
              ELSE /\ handler' = [handler EXCEPT ![h] =
                           [pc |-> "db", request |-> handler[h].request,
                            call |-> d.call]]
                   /\ UNCHANGED response
    /\ UNCHANGED <<subscriptions, now, activeCheck, browserVars, guardVars, checkoutVars, nav>>

\* the call of slot h returns with 'result'; the handler logs and answers
Return(h, result) ==
    /\ subscriptions' = result.rows
    /\ console' = [console EXCEPT ![h] = @ \o LinesAfter(handler[h].call, result.error)]
    /\ response' = [response EXCEPT ![h] = ResponseAfter(handler[h].call, result.error)]
    /\ handler' = [handler EXCEPT ![h] = Idle]
    /\ UNCHANGED <<now, activeCheck, browserVars, guardVars, checkoutVars, nav>>

\* the database executes the call of slot h
DbApply(h) ==
    /\ handler[h].pc = "db"
    /\ Return(h, ExecuteCall(subscriptions, handler[h].call))

\* the call of slot h fails without reaching the table
DbError(h) ==
    /\ handler[h].pc = "db"
    /\ Return(h, Unavailable(subscriptions))

----------------------------------------------------------------------------
(* The acknowledge-then-process handler: POST and handleWebhookEvent of
   src/unnamed/part_011. POST answers as soon as the event is verified and
   leaves handleWebhookEvent running; the position "detached" is the await
   of its database call, whose returned error the code does not read. *)

\* what POST (lines 50-95) and the start of handleWebhookEvent (lines
\* 98-139, 144-156) do with a request: the response, the lines logged, and
\* the database call the detached processing is left awaiting, if any
DispatchDetached(req, nowMs) ==
    IF ~req.signature.present
    THEN [ response |-> ErrorResponse("Webhook Error"), detached |-> FALSE,
           lines |-> << <<"error", "Webhook error:", "No stripe signature found">> >> ]
    ELSE IF ~constructEvent(req.rawBody, req.signature, WebhookSecret)
    THEN [ response |-> ErrorResponse("Webhook Error"), detached |-> FALSE,
           lines |-> << <<"error", "Webhook error:", "signature verification failed">> >> ]
    ELSE LET event == req.rawBody
             received == << <<"log", "Webhook event received:", event.type>> >>
         IN  IF event.type \in SubscriptionEventTypes
             THEN LET subscription == event.object
                      userId == IF TruthyString(subscription.metadata.userId)
                                THEN subscription.metadata.userId
                                ELSE subscription.customer
                  IN  IF ~TruthyString(userId)
                      THEN [ response |-> Received, detached |-> FALSE,
                             lines |-> received \o
                                 <<Log("Processing subscription:"),
                                   Error("No user ID or customer ID found in webhook")>> ]
                      ELSE [ response |-> Received, detached |-> TRUE,
                             call |-> [op |-> "upsert",
                                       values |-> SubscriptionValues(subscription,
                                                                     userId, nowMs)],
                             lines |-> received \o <<Log("Processing subscription:")>> ]
             ELSE IF event.type = DeletedEventType
                       /\ TruthyString(event.object.metadata.userId)
             THEN [ response |-> Received, detached |-> TRUE,
                    call |-> [op |-> "update", match |-> event.object.metadata.userId,
                              values |-> CancellationValues(nowMs)],
                    lines |-> received ]
             ELSE [ response |-> Received, detached |-> FALSE, lines |-> received ]

\* the lines handleWebhookEvent logs once its awaited call returned (line
\* 141), whether or not the call returned an error
LinesAfterDetached(call) ==
    IF call.op = "upsert"
    THEN <<Log("Subscription processed successfully:")>>
    ELSE <<>>

\* slot h verifies its request, answers, and starts handleWebhookEvent
Acknowledge(h) ==
    /\ handler[h].pc = "received"
    /\ LET d == DispatchDetached(handler[h].request, NowMs)
       IN  /\ console' = [console EXCEPT ![h] = d.lines]
           /\ response' = [response EXCEPT ![h] = d.response]
           /\ handler' = [handler EXCEPT ![h] =
                   IF d.detached
                   THEN [pc |-> "detached", request |-> handler[h].request,
                         call |-> d.call]
                   ELSE Idle]
    /\ UNCHANGED <<subscriptions, now, activeCheck, browserVars, guardVars, checkoutVars, nav>>

\* the awaited call of the detached processing resolves with 'result'
Resolve(h, result) ==
    /\ subscriptions' = result.rows
    /\ console' = [console EXCEPT ![h] = @ \o LinesAfterDetached(handler[h].call)]
    /\ handler' = [handler EXCEPT ![h] = Idle]
    /\ UNCHANGED <<response, now, activeCheck, browserVars, guardVars, checkoutVars, nav>>

\* the database executes the call
DetachedApply(h) ==
    /\ handler[h].pc = "detached"
    /\ Resolve(h, ExecuteCall(subscriptions, handler[h].call))

\* the call resolves with an error and the table unchanged
DetachedError(h) ==
    /\ handler[h].pc = "detached"
    /\ Resolve(h, Unavailable(subscriptions))

\* the call rejects: the .catch of lines 83-85 logs it
DetachedThrow(h) ==
    /\ handler[h].pc = "detached"
    /\ console' = [console EXCEPT ![h] = @ \o <<Error("Async webhook processing error:")>>]
    /\ handler' = [handler EXCEPT ![h] = Idle]
    /\ UNCHANGED <<subscriptions, response, now, activeCheck, browserVars, guardVars, checkoutVars, nav>>

----------------------------------------------------------------------------
(* isSubscriptionActive of src/lib/utils.ts *)

NoCheck == [userId |-> NoUserId, failed |-> FALSE, result |-> FALSE]

\* a predicate that looks at the status alone
isSubscriptionActiveStatusOnly(rows, userId, nowMs, failed) ==
    /\ ~failed
    /\ Cardinality(RowsOf(rows, userId)) = 1
    /\ \A r \in RowsOf(rows, userId) : r.status = "active"

\* a predicate that also refuses a subscription set to cancel at period end
isSubscriptionActiveUnlessCanceling(rows, userId, nowMs, failed) ==
    /\ ~failed
    /\ Cardinality(RowsOf(rows, userId)) = 1
    /\ \A r \in RowsOf(rows, userId) :
         /\ r.status = "active"
         /\ DateParse(r.current_period_end) > nowMs
         /\ ~r.cancel_at_period_end

\* a predicate that grants access when its query fails
isSubscriptionActiveFailOpen(rows, userId, nowMs, failed) ==
    \/ failed
    \/ /\ Cardinality(RowsOf(rows, userId)) = 1
       /\ \A r \in RowsOf(rows, userId) :
            r.status = "active" /\ DateParse(r.current_period_end) > nowMs

\* lines 43-60: select status, current_period_end of the user's row with
\* .single(), which is an error unless exactly one row matches
isSubscriptionActive(rows, userId, nowMs, failed) ==
    LET matching == RowsOf(rows, userId)
        error == failed \/ Cardinality(matching) # 1
    IN  IF error
        THEN FALSE
        ELSE LET row == CHOOSE r \in matching : TRUE
                 data == [status |-> row.status,
                          current_period_end |-> row.current_period_end]
             IN  data.status = "active" /\ DateParse(data.current_period_end) > nowMs

\* a caller asks whether user u has access
CheckSubscription(u) ==
    /\ \E failed \in BOOLEAN :
         activeCheck' = [userId |-> u, failed |-> failed,
                         result |-> isSubscriptionActive(subscriptions, u, NowMs, failed)]
    /\ UNCHANGED <<subscriptions, now, handler, response, console, browserVars, guardVars, checkoutVars, nav>>

----------------------------------------------------------------------------
(* The handlers that carry a duplicate guard: POST of src/unnamed/part_007
   (lines 160-276), whose Set is a module-level constant, and POST of
   src/app/auth/callback/route.ts (lines 157-237), whose Set is built inside
   handleWebhookEventAsync. Neither writes to the table. Each invocation
   runs without suspending between the guard and the response, so it is one
   step; the request dump that opens an invocation of part_007 is left out. *)

GuardedHandlers == {"moduleSet", "localSet"}

\* events as the provider delivers them: evt_2 and evt_3 are two updates of
\* one subscription
GuardEvents ==
    { [id |-> "evt_1", type |-> "customer.subscription.created", object |-> [id |-> "sub_1"]],
      [id |-> "evt_2", type |-> "customer.subscription.updated", object |-> [id |-> "sub_1"]],
      [id |-> "evt_3", type |-> "customer.subscription.updated", object |-> [id |-> "sub_1"]],
      [id |-> "evt_4", type |-> "payment_intent.succeeded", object |-> [id |-> "pi_1"]],
      [id |-> "evt_5", type |-> "customer.subscription.deleted", object |-> [id |-> "sub_1"]] }

GuardRequests ==
    UNION { { [rawBody |-> e, signature |-> g] :
                g \in {NoSignature, Sign(e, WebhookSecret), Sign(e, "whsec_other")} } :
            e \in GuardEvents }

\* console lines, the response last sent, the events the process has
\* verified so far, and the event keys whose processing has run to its end
NoDeliveries ==
    [console |-> <<>>, response |-> NoResponse, handled |-> {}, completed |-> {}]

DuplicateLine(eventKey) == <<"log", "Duplicate event detected:", eventKey>>

\* the switch of handleWebhookEventAsync (part_007 lines 245-271, callback
\* route lines 214-236): one console line, no database call
ProcessingLine(event) ==
    IF event.type \in SubscriptionEventTypes THEN Log("Processing subscription:")
    ELSE IF event.type = "payment_intent.succeeded" THEN Log("Processing payment:")
    ELSE Log("Unhandled event type:")

\* handleWebhookEventAsync of the callback route file, lines 202-237: the
\* Set is created by the call itself
handleWebhookEventAsync(event) ==
    LET processed == {}
        eventKey == <<event.type, event.object.id>>
    IN  IF eventKey \in processed
        THEN <<DuplicateLine(eventKey)>>
        ELSE <<ProcessingLine(event)>>

\* a processing that throws inside its try block: the catch of lines
\* 272-275 logs the error and the processing does not reach its end
ProcessAfterResponseFailing(event) ==
    [lines |-> <<Error("Event processing error:")>>, completed |-> FALSE]

\* handleWebhookEventAsync of part_007, lines 243-276, as POST calls it in
\* lines 214-216: the function holds no await, so the call runs to its end
\* before POST returns; its switch cannot throw
ProcessAfterResponse(event) ==
    [lines |-> <<ProcessingLine(event)>>, completed |-> TRUE]

\* one delivery to slot g: its lines are appended, its response replaces
\* the last one, a verified event is recorded as handled, and the keys in
\* 'done' as processed to the end
Delivered(g, req, verified, lines, resp, done) ==
    guard' = [guard EXCEPT ![g] =
                [console |-> @.console \o lines,
                 response |-> resp,
                 handled |-> IF verified THEN @.handled \cup {req.rawBody.id}
                             ELSE @.handled,
                 completed |-> @.completed \cup done]]

\* POST of part_007, lines 160-240
POSTWithModuleGuard(req) ==
    /\ Len(guard["moduleSet"].console) < MaxDeliveries
    /\ IF ~req.signature.present
       THEN /\ Delivered("moduleSet", req, FALSE, <<Error("Processing error:")>>,
                         [status |-> 500, body |-> [error |-> "Processing failed"]], {})
            /\ UNCHANGED processedEvents
       ELSE IF ~constructEvent(req.rawBody, req.signature, WebhookSecret)
       THEN /\ Delivered("moduleSet", req, FALSE, <<Error("Webhook verification failed:")>>,
                         ErrorResponse("Verification failed"), {})
            /\ UNCHANGED processedEvents
       ELSE LET event == req.rawBody
                eventKey == <<event.type, event.id>>
            IN  IF eventKey \in processedEvents
                THEN /\ Delivered("moduleSet", req, TRUE, <<DuplicateLine(eventKey)>>,
                                  Received, {})
                     /\ UNCHANGED processedEvents
                ELSE LET processing == ProcessAfterResponse(event)
                     IN  /\ processedEvents' = processedEvents \cup {eventKey}
                         /\ Delivered("moduleSet", req, TRUE, processing.lines,
                                      Received,
                                      IF processing.completed THEN {eventKey} ELSE {})
    /\ UNCHANGED <<subscriptions, now, handler, response, console, activeCheck, browserVars, checkoutVars, nav>>

\* POST of the callback route file, lines 157-199
POSTWithLocalGuard(req) ==
    /\ Len(guard["localSet"].console) < MaxDeliveries
    /\ IF ~req.signature.present
       THEN Delivered("localSet", req, FALSE,
                      <<Error("Missing signature or webhook secret")>>,
                      ErrorResponse("Missing signature"), {})
       ELSE IF ~constructEvent(req.rawBody, req.signature, WebhookSecret)
       THEN Delivered("localSet", req, FALSE,
                      <<Error("Webhook signature verification failed:")>>,
                      ErrorResponse("Webhook signature verification failed"), {})
       ELSE Delivered("localSet", req, TRUE, handleWebhookEventAsync(req.rawBody),
                      Received, {<<req.rawBody.type, req.rawBody.object.id>>})
    /\ UNCHANGED <<subscriptions, now, handler, response, console, activeCheck,
                   browserVars, processedEvents, checkoutVars, nav>>

----------------------------------------------------------------------------
(* The browser: src/middleware.ts *)

\* no page route was requested yet
NoPage == [request |-> [route |-> "none"], result |-> [kind |-> "none"]]

\* NextResponse.next(): the request goes on to the page
PassThrough == [kind |-> "next"]
\* NextResponse.redirect(new URL(pathname + query, req.url))
Redirect(pathname, error, details) ==
    [kind |-> "redirect", pathname |-> pathname, error |-> error, details |-> details]
RedirectTo(pathname) == Redirect(pathname, "", "")

\* paths the matcher of lines 108-110 sends through the middleware
Paths == {"/finance", "/finance/reports", "/dashboard", "/auth/login"}

\* req.nextUrl.pathname.startsWith('/finance'), line 51
StartsWithFinance(path) == path \in {"/finance", "/finance/reports"}

\* a middleware that lets a /finance request through when its
\* subscriptions query fails
middlewareFailOpen(rows, sess, path, nowMs, thrown, failed) ==
    IF thrown
    THEN RedirectTo("/auth/login")
    ELSE IF StartsWithFinance(path) /\ sess = Null
    THEN RedirectTo("/auth/login")
    ELSE IF /\ StartsWithFinance(path)
            /\ ~failed
            /\ \A r \in RowsOf(rows, sess[1]) : r.status # "active"
    THEN RedirectTo("/dashboard")
    ELSE IF sess # Null /\ path = "/auth/login"
    THEN RedirectTo("/dashboard")
    ELSE PassThrough

\* middleware, lines 24-96. 'thrown': getSession throws (the catch of lines
\* 90-95); 'failed': the subscriptions query returns an error (line 66)
middleware(rows, sess, path, nowMs, thrown, failed) ==
    IF thrown
    THEN RedirectTo("/auth/login")
    ELSE LET authFlow ==
                 IF sess # Null /\ path = "/auth/login"
                 THEN RedirectTo("/dashboard")
                 ELSE PassThrough
         IN  IF StartsWithFinance(path)
             THEN IF sess = Null
                  THEN RedirectTo("/auth/login")
                  ELSE LET matching == RowsOf(rows, sess[1])
                           error == failed \/ Cardinality(matching) # 1
                       IN  IF error
                           THEN RedirectTo("/dashboard")
                           ELSE LET row == CHOOSE r \in matching : TRUE
                                    subscription == [status |-> row.status]
                                IN  IF subscription.status # "active"
                                    THEN RedirectTo("/dashboard")
                                    ELSE authFlow
             ELSE authFlow

\* the browser requests 'path'
Middleware(path) ==
    /\ \E thrown, failed \in BOOLEAN :
         page' = [request |-> [route |-> "middleware", path |-> path],
                  thrown |-> thrown, failed |-> failed,
                  result |-> middleware(subscriptions, session, path, NowMs,
                                        thrown, failed)]
    /\ UNCHANGED <<subscriptions, now, handler, response, console, activeCheck, session, guardVars, checkoutVars, nav>>

----------------------------------------------------------------------------
(* The browser: GET of src/app/auth/callback/route.ts, lines 30-101 *)

\* the 'code' query parameter: absent, empty, or a code the identity
\* provider issued (for a user) or no longer honours
AuthCodes == {Null, Some(""), Some("code_u1"), Some("code_u2"), Some("code_stale")}
UserOfCode(code) == IF code = "code_u1" THEN "u1" ELSE "u2"

\* what exchangeCodeForSession(code) can do: return a session, return an
\* AuthError (line 54), or throw something else
ExchangeOutcomes(code) ==
    {"error", "thrown"}
    \cup (IF code \in {Some("code_u1"), Some("code_u2")} THEN {"session"} ELSE {})

\* the generic text of lines 75 and 93
UnexpectedError == "An unexpected error occurred"

\* a callback that goes to the dashboard whatever the exchange returned
GETIgnoringExchange(code, thrown, exchange) ==
    IF thrown
    THEN Redirect("/auth/login", "callback_error", "message")
    ELSE IF code # Null /\ TruthyString(code[1])
    THEN RedirectTo("/dashboard")
    ELSE Redirect("/auth/login", "no_code", "")

\* GET, lines 30-101. 'thrown': a statement outside the inner try throws
\* an Error; 'exchange': the outcome of exchangeCodeForSession
GET(code, thrown, exchange) ==
    IF thrown
    THEN Redirect("/auth/login", "callback_error", "message")
    ELSE IF code # Null /\ TruthyString(code[1])
    THEN IF exchange = "session"
         THEN RedirectTo("/dashboard")
         ELSE Redirect("/auth/login", "session_error",
                       IF exchange = "error" THEN "message" ELSE UnexpectedError)
    ELSE Redirect("/auth/login", "no_code", "")

\* the identity provider sends the browser back to /auth/callback
Callback(code, thrown, exchange) ==
    /\ exchange \in ExchangeOutcomes(code)
    /\ LET attempted == ~thrown /\ code # Null /\ TruthyString(code[1])
       IN  /\ page' = [request |-> [route |-> "callback", code |-> code],
                       thrown |-> thrown,
                       exchange |-> IF attempted THEN exchange ELSE "none",
                       result |-> GET(code, thrown, exchange)]
           /\ session' = IF attempted /\ exchange = "session"
                         THEN Some(UserOfCode(code[1]))
                         ELSE session
    /\ UNCHANGED <<subscriptions, now, handler, response, console, activeCheck, guardVars, checkoutVars, nav>>

----------------------------------------------------------------------------
(* Checkout session creation: POST of                                      *)
(* src/app/api/create-checkout-session/route.ts, and the POST with the     *)
(* same purpose kept in src/app/auth/callback/route.ts                     *)

CheckoutRoutes == {"create-checkout-session", "callback"}

\* the body of a POST: JSON text with or without a userId, or text that
\* req.json() cannot parse
CheckoutBodies ==
    { [json |-> TRUE, userId |-> u] : u \in {"u1", NoUserId} }
    \cup { [json |-> FALSE, userId |-> NoUserId] }

NoCheckout == [route |-> "none", response |-> NoResponse]

\* what the client gets when the handler's promise rejects: the
\* framework's bare HTTP 500, which carries no JSON
Unhandled == [status |-> 500, body |-> [none |-> TRUE]]
SessionCreated(id) == [status |-> 200, body |-> [sessionId |-> id]]
Refused(status, message) == [status |-> status, body |-> [error |-> message]]

\* the id the provider gives its next checkout session
NextSessionId(sessions) == Cardinality(sessions) + 1

\* POST of src/app/api/create-checkout-session/route.ts: the parameters it
\* hands to stripe.checkout.sessions.create (an absent userId is "") and
\* its answer; 'rejects' is the provider refusing the call
CheckoutPOST(body, sessions, rejects) ==
    IF ~body.json
    THEN [response |-> Unhandled, created |-> {}]
    ELSE LET params == [ id |-> NextSessionId(sessions),
                         price |-> "price_1QCRefHV58Ez6fBugM64KfIx",
                         client_reference_id |-> body.userId,
                         metadata |-> [userId |-> NoUserId],
                         subscription_data |-> [metadata |-> [userId |-> NoUserId]] ]
         IN  IF rejects
             THEN [response |-> Unhandled, created |-> {}]
             ELSE [response |-> SessionCreated(params.id), created |-> {params}]

\* the POST kept in src/app/auth/callback/route.ts, lines 273-311
CheckoutPOSTWithMetadata(body, sessions, rejects) ==
    IF ~body.json
    THEN [response |-> Unhandled, created |-> {}]
    ELSE IF ~TruthyString(body.userId)
    THEN [response |-> Refused(400, "User ID is required"), created |-> {}]
    ELSE LET params == [ id |-> NextSessionId(sessions),
                         price |-> "price_1QDLFgHV58Ez6fBuBiIuGy70",
                         client_reference_id |-> NoUserId,
                         metadata |-> [userId |-> body.userId],
                         subscription_data |->
                             [metadata |-> [userId |-> body.userId]] ]
         IN  IF rejects
             THEN [ response |-> Refused(500, "Failed to create checkout session"),
                    created |-> {} ]
             ELSE [response |-> SessionCreated(params.id), created |-> {params}]

\* a client posts 'body' to one of the two handlers
CreateCheckoutSession(route, body, rejects) ==
    /\ Cardinality(provider) < MaxSessions
    /\ LET result == IF route = "create-checkout-session"
                     THEN CheckoutPOST(body, provider, rejects)
                     ELSE CheckoutPOSTWithMetadata(body, provider, rejects)
       IN  /\ checkout' = [ route |-> route, body |-> body,
                            response |-> result.response ]
           /\ provider' = provider \cup result.created
    /\ UNCHANGED <<subscriptions, now, handler, response, console, activeCheck,
                   browserVars, guardVars, nav>>

\* the subscription the provider starts when the customer pays checkout
\* session s: its metadata is the session's subscription_data.metadata
SubscriptionOf(s) ==
    Subscription(s.subscription_data.metadata.userId, FirstContract, "active",
                 MaxEpoch - 2, FALSE, Null, Null)

\* the signed delivery of the created event of that subscription
CreatedDelivery(s) ==
    LET event == [type |-> "customer.subscription.created", object |-> SubscriptionOf(s)]
    IN  [rawBody |-> event, signature |-> Sign(event, WebhookSecret)]

\* the customer pays session s and the provider notifies the webhook
Subscribe(h, s) ==
    /\ s \in provider
    /\ Receive(h, CreatedDelivery(s))

----------------------------------------------------------------------------
(* Navigation: the redirects of src/middleware.ts, of the login page
   (src/app/auth/login/page.tsx) and of the dashboard page
   (src/app/dashboard/page.tsx). A navigation starts with a request for a
   path; every request passes the middleware, a redirect is followed with a
   new request, and a page that is reached runs its effect, which may push
   another path. The finance page is not among the sources: a request that
   reaches it ends the chain. The conditions of the identity provider (the
   middleware's getSession throwing, the page's getSession or getUser
   returning an error) are those of the whole navigation. *)

\* paths a navigation starts from
EntryPaths == {"/auth/login", "/dashboard", "/finance"}

NoNavigation ==
    [ stage |-> "idle", path |-> "none", thrown |-> FALSE,
      sessionError |-> FALSE, userError |-> FALSE ]

\* no push: the page stays
Stay == Null

\* checkUser of the login page, lines 37-45: the error of getSession is not
\* read, its session is null when it failed
checkUser(sess, sessionError) ==
    LET pageSession == IF sessionError THEN Null ELSE sess
    IN  IF pageSession # Null THEN Some("/finance") ELSE Stay

\* fetchUserAndSubscription of the dashboard page, lines 78-130
fetchUserAndSubscription(sess, sessionError, userError) ==
    IF sessionError \/ sess = Null
    THEN Some("/auth/login")
    ELSE IF userError
    THEN Some("/auth/login")
    ELSE Stay

\* the effect of the page at 'path'
PageEffect(path, sess, sessionError, userError) ==
    IF path = "/auth/login" THEN checkUser(sess, sessionError)
    ELSE IF path = "/dashboard"
    THEN fetchUserAndSubscription(sess, sessionError, userError)
    ELSE Stay

\* the user enters a path while the identity provider is in the given
\* condition
StartNavigation(path, thrown, sessionError, userError) ==
    /\ nav.stage \in {"idle", "rendered"}
    /\ nav' = [ stage |-> "middleware", path |-> path, thrown |-> thrown,
                sessionError |-> sessionError, userError |-> userError ]
    /\ UNCHANGED <<subscriptions, now, handler, response, console, activeCheck,
                   browserVars, guardVars, checkoutVars>>

\* the middleware answers the pending request: the browser follows a
\* redirect with a new request, or goes on to the page
RunMiddleware ==
    /\ nav.stage = "middleware"
    /\ \E failed \in BOOLEAN :
         LET r == middleware(subscriptions, session, nav.path, NowMs,
                             nav.thrown, failed)
         IN  nav' = IF r = PassThrough
                    THEN [nav EXCEPT !.stage = "page"]
                    ELSE [nav EXCEPT !.path = r.pathname]
    /\ UNCHANGED <<subscriptions, now, handler, response, console, activeCheck,
                   browserVars, guardVars, checkoutVars>>

\* the page that was reached runs its effect: it pushes another path or
\* stays as rendered
RunPage ==
    /\ nav.stage = "page"
    /\ LET push == PageEffect(nav.path, session, nav.sessionError, nav.userError)
       IN  nav' = IF push = Stay
                  THEN [nav EXCEPT !.stage = "rendered"]
                  ELSE [nav EXCEPT !.stage = "middleware", !.path = push[1]]
    /\ UNCHANGED <<subscriptions, now, handler, response, console, activeCheck,
                   browserVars, guardVars, checkoutVars>>

----------------------------------------------------------------------------
(* The clock *)

Tick ==
    /\ now < MaxTicks
    /\ now' = now + 1
    /\ UNCHANGED <<subscriptions, handler, response, console, activeCheck, browserVars, guardVars, checkoutVars, nav>>

----------------------------------------------------------------------------
(* Specifications *)

Init ==
    /\ subscriptions = {}
    /\ now = 0
    /\ handler = [h \in Handlers |-> Idle]
    /\ response = [h \in Handlers |-> NoResponse]
    /\ console = [h \in Handlers |-> <<>>]
    /\ activeCheck = NoCheck
    /\ session = Null
    /\ page = NoPage
    /\ processedEvents = {}
    /\ guard = [g \in GuardedHandlers |-> NoDeliveries]
    /\ checkout = NoCheckout
    /\ provider = {}
    /\ nav = NoNavigation

\* requests that carry a verified event about user u
VerifiedRequestsOf(u) ==
    { req \in Requests :
        /\ req.signature = Sign(req.rawBody, WebhookSecret)
        /\ req.rawBody.type \in SubscriptionEventTypes \cup {DeletedEventType}
        /\ req.rawBody.object.metadata.userId = u }

\* Spec: the endpoint receives any request, signed or not, and handles the
\* deliveries one at a time; the database may fail
Next ==
    \/ \E req \in Requests : Receive("h1", req)
    \/ Handle("h1")
    \/ DbApply("h1")
    \/ DbError("h1")
    \/ Tick

Spec == Init /\ [][Next]_vars

\* SpecRace: two invocations overlap on deliveries for one user while the
\* database is available
NextRace ==
    \/ \E h \in Handlers, req \in VerifiedRequestsOf("u1") : Receive(h, req)
    \/ \E h \in Handlers : Handle(h)
    \/ \E h \in Handlers : DbApply(h)
    \/ Tick

SpecRace == Init /\ [][NextRace]_vars

\* SpecAccess: the access predicate is asked while deliveries for one user
\* are handled
NextAccess ==
    \/ \E req \in VerifiedRequestsOf("u1") : Receive("h1", req)
    \/ Handle("h1")
    \/ DbApply("h1")
    \/ DbError("h1")
    \/ \E u \in Users : CheckSubscription(u)
    \/ Tick

SpecAccess == Init /\ [][NextAccess]_vars

\* requests, signed or not, whose event names one of 'users' in its metadata
RequestsOf(users) ==
    { req \in Requests : req.rawBody.object.metadata.userId \in users }

\* SpecDetached: the acknowledge-then-process handler receives requests,
\* signed or not, for one user or for none; the database may fail
NextDetached ==
    \/ \E req \in RequestsOf({"u1", NoUserId}) : Receive("h1", req)
    \/ Acknowledge("h1")
    \/ DetachedApply("h1")
    \/ DetachedError("h1")
    \/ DetachedThrow("h1")
    \/ Tick

SpecDetached == Init /\ [][NextDetached]_vars

\* SpecGuard: the two handlers that carry a duplicate guard take deliveries
\* and redeliveries
NextGuard ==
    \/ \E req \in GuardRequests : POSTWithModuleGuard(req)
    \/ \E req \in GuardRequests : POSTWithLocalGuard(req)

SpecGuard == Init /\ [][NextGuard]_vars

\* SpecBrowser: a browser signs in through the OAuth callback and requests
\* pages while deliveries for one user are handled
NextBrowser ==
    \/ \E req \in VerifiedRequestsOf("u1") : Receive("h1", req)
    \/ Handle("h1")
    \/ DbApply("h1")
    \/ \E code \in AuthCodes, thrown \in BOOLEAN, exchange \in {"session", "error", "thrown"} :
         Callback(code, thrown, exchange)
    \/ \E path \in Paths : Middleware(path)
    \/ Tick

SpecBrowser == Init /\ [][NextBrowser]_vars

\* SpecCheckout: clients ask for checkout sessions, the provider may refuse,
\* and the created event of every paid session is delivered to the webhook
NextCheckout ==
    \/ \E route \in CheckoutRoutes, body \in CheckoutBodies, rejects \in BOOLEAN :
         CreateCheckoutSession(route, body, rejects)
    \/ \E s \in provider : Subscribe("h1", s)
    \/ Handle("h1")
    \/ DbApply("h1")
    \/ Tick

SpecCheckout == Init /\ [][NextCheckout]_vars

\* SpecCanceled: user u1 signs in and asks for /finance pages, and callers
\* ask isSubscriptionActive, while deliveries for u1 are handled; the
\* database may fail
NextCanceled ==
    \/ \E req \in VerifiedRequestsOf("u1") : Receive("h1", req)
    \/ Handle("h1")
    \/ DbApply("h1")
    \/ DbError("h1")
    \/ Callback(Some("code_u1"), FALSE, "session")
    \/ \E path \in { p \in Paths : StartsWithFinance(p) } : Middleware(path)
    \/ CheckSubscription("u1")
    \/ Tick

SpecCanceled == Init /\ [][NextCanceled]_vars

\* SpecNavigation: a browser, signed in or not, starts navigations while
\* deliveries for u1 are handled; a pending request is answered and a
\* reached page runs its effect (weak fairness of the two steps)
NextNavigation ==
    \/ \E req \in VerifiedRequestsOf("u1") : Receive("h1", req)
    \/ Handle("h1")
    \/ DbApply("h1")
    \/ Callback(Some("code_u1"), FALSE, "session")
    \/ \E path \in EntryPaths, thrown, sessionError, userError \in BOOLEAN :
         StartNavigation(path, thrown, sessionError, userError)
    \/ RunMiddleware
    \/ RunPage

SpecNavigation ==
    /\ Init /\ [][NextNavigation]_vars
    /\ WF_vars(RunMiddleware)
    /\ WF_vars(RunPage)

----------------------------------------------------------------------------
(* Properties *)

\* the request carries the signature the provider computes for its body
Genuine(req) == req.signature = Sign(req.rawBody, WebhookSecret)

HandledTypes == SubscriptionEventTypes \cup {DeletedEventType}

HasRow(rows, u) == RowsOf(rows, u) # {}
RowOf(rows, u) == CHOOSE r \in RowsOf(rows, u) : TRUE

\* the last line slot h logged
LastLine(h) == IF console[h] = <<>> THEN <<>> ELSE console[h][Len(console[h])]

\* slot h takes the step that follows the reading of its request
Handles(h) == handler[h].pc = "received" /\ handler'[h] # handler[h]

\* C1: a POST whose stripe-signature header is missing or does not verify
\* is answered with HTTP 400 and issues no database call, and the table
\* changes only by the call of an invocation whose request passed
\* constructEvent.
C1_UnverifiedRejected ==
    [][ /\ \A h \in Handlers :
             (Handles(h) /\ ~Genuine(handler[h].request)) =>
                 /\ response'[h].status = 400
                 /\ handler'[h] = Idle
                 /\ subscriptions' = subscriptions
        /\ \A h \in Handlers :
             handler[h].pc = "db" => Genuine(handler[h].request)
        /\ subscriptions' # subscriptions =>
             \E h \in Handlers :
                 /\ handler[h].pc = "db"
                 /\ Genuine(handler[h].request)
                 /\ handler'[h] = Idle ]_vars

\* a request was rejected for its signature while the table holds rows
C1_Witness ==
    /\ response["h1"] = ErrorResponse("Webhook Error")
    /\ console["h1"] = << <<"error", "Webhook error:", "signature verification failed">> >>
    /\ subscriptions # {}

C3_OneRowPerUser ==
    \A u \in Users : Cardinality(RowsOf(subscriptions, u)) <= 1

\* both users have a row, and u1's row is the one of a later subscription
\* written after an earlier write at a different time
C3_Witness ==
    /\ \A u \in Users : HasRow(subscriptions, u)
    /\ RowOf(subscriptions, "u1").stripe_subscription_id = "sub_2"
    /\ RowOf(subscriptions, "u2").stripe_subscription_id = "sub_1"
    /\ RowOf(subscriptions, "u1").updated_at # RowOf(subscriptions, "u2").updated_at

\* the values of an upsert agree with row r in every column but updated_at
SameButUpdatedAt(r, values) == [r EXCEPT !.updated_at = values.updated_at] = values

\* slot h is about to apply the upsert of an event onto the row that an
\* earlier processing of the same event wrote
Redelivered(h) ==
    /\ handler[h].pc = "db"
    /\ handler[h].call.op = "upsert"
    /\ HasRow(subscriptions, handler[h].call.values.user_id)
    /\ SameButUpdatedAt(RowOf(subscriptions, handler[h].call.values.user_id),
                        handler[h].call.values)

\* C4 as claimed: processing a created/updated event a second time leaves
\* the table identical, field for field, to the table after the first
\* processing.
C4_Original ==
    [][ \A h \in Handlers :
          (Redelivered(h) /\ DbApply(h)) => subscriptions' = subscriptions ]_vars

\* C4, amended: processing a created/updated event a second time changes
\* nothing but updated_at of the user's row, which takes the time of the
\* second processing; no row is added and no other row is touched.
C4_IdempotentButUpdatedAt ==
    [][ \A h \in Handlers :
          (Redelivered(h) /\ DbApply(h)) =>
              subscriptions' =
                { IF r.user_id = handler[h].call.values.user_id
                  THEN [r EXCEPT !.updated_at = handler[h].call.values.updated_at]
                  ELSE r : r \in subscriptions } ]_vars

\* a redelivery built at a later time is about to be applied
C4_Witness ==
    /\ Redelivered("h1")
    /\ RowOf(subscriptions, handler["h1"].call.values.user_id).updated_at
         # handler["h1"].call.values.updated_at

\* the upsert of slot h has returned
UpsertReturned(h) ==
    LastLine(h) \in { Log("Subscription updated successfully"),
                      Error("Subscription update failed:") }

\* C5: when deliveries of created/updated events for one user overlap, no
\* delivery ends in a persistence error (no 400 response), and once an
\* upsert has returned the user has exactly one row.
C5_ConcurrentUpsert ==
    \A h \in Handlers :
        /\ response[h].status # 400
        /\ UpsertReturned(h) =>
             /\ response[h] = [status |-> 200, body |-> [received |-> TRUE]]
             /\ Cardinality(RowsOf(subscriptions, "u1")) = 1

\* one delivery has written the row while the other delivery of the same
\* event, taken at the same time, is still at its database call
C5_Witness ==
    /\ LastLine("h1") = Log("Subscription updated successfully")
    /\ handler["h2"].pc = "db"
    /\ handler["h2"].call.op = "upsert"
    /\ subscriptions = {handler["h2"].call.values}

\* the ISO text of the instant t seconds after the epoch
InstantOf(t) == <<t, 0>>
NullableInstantOf(x) == IF x = Null THEN Null ELSE InstantOf(x[1])

\* row r carries the fields of subscription object o for user u
Mirrors(r, o, u) ==
    /\ r.user_id = u
    /\ r.stripe_subscription_id = o.id
    /\ r.stripe_customer_id = o.customer
    /\ r.status = o.status
    /\ r.price_id = Head(o.items)
    /\ r.current_period_start = InstantOf(o.current_period_start)
    /\ r.current_period_end = InstantOf(o.current_period_end)
    /\ r.cancel_at_period_end = o.cancel_at_period_end
    /\ r.canceled_at = NullableInstantOf(o.canceled_at)
    /\ r.cancel_at = NullableInstantOf(o.cancel_at)

\* slot h is about to apply a created event for a user who has no row
CreatesRow(h) ==
    /\ handler[h].pc = "db"
    /\ handler[h].request.rawBody.type = "customer.subscription.created"
    /\ ~HasRow(subscriptions, handler[h].request.rawBody.object.metadata.userId)

\* C6: applying a created event with metadata.userId = u to a table with no
\* row for u adds exactly one row, whose user_id is u and whose identifiers,
\* status, price, period bounds and cancellation fields are those of the
\* event's subscription object.
C6_CreatedRowMirrorsEvent ==
    [][ \A h \in Handlers :
          (CreatesRow(h) /\ DbApply(h)) =>
              LET o == handler[h].request.rawBody.object
              IN  \E r \in subscriptions' :
                    /\ Mirrors(r, o, o.metadata.userId)
                    /\ r \notin subscriptions
                    /\ subscriptions' = subscriptions \cup {r} ]_vars

\* a created event for u2, with a scheduled cancellation, is about to be
\* applied while u1 has a row and u2 has none
C6_Witness ==
    /\ CreatesRow("h1")
    /\ handler["h1"].request.rawBody.object.metadata.userId = "u2"
    /\ handler["h1"].request.rawBody.object.cancel_at_period_end
    /\ HasRow(subscriptions, "u1")

\* slot h is about to apply the cancellation of a user who has a row
CancelsRow(h) ==
    /\ handler[h].pc = "db"
    /\ handler[h].call.op = "update"
    /\ HasRow(subscriptions, handler[h].call.match)

\* milliseconds since the epoch of an ISO text
InstantMs(iso) == iso[1] * 1000 + iso[2]

\* C7 as claimed: applying a deleted event for user u sets status to
\* 'canceled' and canceled_at to a time at or after the processing, and
\* leaves every other field of u's row, and every other row, unchanged.
C7_Original ==
    [][ \A h \in Handlers :
          (CancelsRow(h) /\ DbApply(h)) =>
              LET u == handler[h].call.match
                  old == RowOf(subscriptions, u)
              IN  \E t \in 0 .. (MaxTicks * TickMs) :
                    /\ t <= NowMs
                    /\ subscriptions' =
                         { IF r.user_id = u
                           THEN [r EXCEPT !.status = "canceled",
                                          !.canceled_at = <<t \div 1000, t % 1000>>]
                           ELSE r : r \in subscriptions } ]_vars

\* C7, amended: applying a deleted event for user u sets status to
\* 'canceled' and both canceled_at and updated_at to the time the handler
\* processed the event, and leaves every other field of u's row, and every
\* other row, unchanged.
C7_CancellationPatch ==
    [][ \A h \in Handlers :
          /\ ( /\ Handles(h)
               /\ Genuine(handler[h].request)
               /\ handler[h].request.rawBody.type = DeletedEventType
               /\ handler[h].request.rawBody.object.metadata.userId \in Users ) =>
                  /\ handler'[h].pc = "db"
                  /\ handler'[h].call.op = "update"
                  /\ handler'[h].call.match =
                       handler[h].request.rawBody.object.metadata.userId
                  /\ InstantMs(handler'[h].call.values.canceled_at) >= NowMs
          /\ (CancelsRow(h) /\ DbApply(h)) =>
                LET u == handler[h].call.match
                    at == handler[h].call.values.canceled_at
                IN  /\ InstantMs(at) <= NowMs
                    /\ subscriptions' =
                         { IF r.user_id = u
                           THEN [r EXCEPT !.status = "canceled",
                                          !.canceled_at = at,
                                          !.updated_at = at]
                           ELSE r : r \in subscriptions } ]_vars

\* a cancellation of u1, built later than the last write of u1's row, is
\* about to be applied while both users have a row that is not canceled
C7_Witness ==
    /\ CancelsRow("h1")
    /\ handler["h1"].call.match = "u1"
    /\ \A u \in Users :
         HasRow(subscriptions, u) /\ RowOf(subscriptions, u).status # "canceled"
    /\ RowOf(subscriptions, "u1").updated_at # handler["h1"].call.values.updated_at

\* C8: a row is never removed: a user who has a row has one after every step.
C8_RowsPersist ==
    [][ \A u \in Users :
          HasRow(subscriptions, u) => HasRow(subscriptions', u) ]_vars

\* a deleted event has been applied and the user's row is still there
C8_Witness ==
    /\ LastLine("h1") = <<"log", "Event verified:", DeletedEventType>>
    /\ response["h1"].status = 200
    /\ HasRow(subscriptions, "u1")
    /\ RowOf(subscriptions, "u1").status = "canceled"

\* the instant of an ISO text is later than the instant ms
Later(iso, ms) ==
    \/ iso[1] > ms \div 1000
    \/ iso[1] = ms \div 1000 /\ iso[2] > ms % 1000

\* user u has a row with status 'active' whose period ends after now
ActiveRow(u) ==
    \E r \in RowsOf(subscriptions, u) :
        r.status = "active" /\ Later(r.current_period_end, NowMs)

\* C9: isSubscriptionActive(u) returns true only when u's row has status
\* 'active' and current_period_end later than the current time, returns
\* true for such a row whenever its query succeeds, and returns false for
\* a row whose current_period_end is not in the future, whatever its status.
C9_ActiveIffStatusAndPeriod ==
    [][ \A u \in Users :
          CheckSubscription(u) =>
              /\ activeCheck'.result => ActiveRow(u)
              /\ (ActiveRow(u) /\ ~activeCheck'.failed) => activeCheck'.result
              /\ (\E r \in RowsOf(subscriptions, u) :
                      ~Later(r.current_period_end, NowMs)) => ~activeCheck'.result ]_vars

\* a check of u1 answered false while u1's row is 'active' with a period
\* that has ended
C9_Witness ==
    /\ activeCheck = [userId |-> "u1", failed |-> FALSE, result |-> FALSE]
    /\ HasRow(subscriptions, "u1")
    /\ RowOf(subscriptions, "u1").status = "active"
    /\ ~Later(RowOf(subscriptions, "u1").current_period_end, NowMs)

\* cancellation markers a row may carry
CancellationMarkers ==
    [ cancel_at_period_end : BOOLEAN,
      canceled_at : {Null, InstantOf(1)},
      cancel_at : {Null, InstantOf(MaxEpoch)} ]

\* the table with the cancellation markers of every row set to m
WithMarkers(rows, m) ==
    { [r EXCEPT !.cancel_at_period_end = m.cancel_at_period_end,
                !.canceled_at = m.canceled_at,
                !.cancel_at = m.cancel_at] : r \in rows }

\* C10: the result of isSubscriptionActive is the same for any values of
\* cancel_at_period_end, canceled_at and cancel_at in the row; a row with
\* cancel_at_period_end = true, status 'active' and a period end in the
\* future is active.
C10_IgnoresCancellationMarkers ==
    [][ \A u \in Users :
          CheckSubscription(u) =>
              /\ \A m \in CancellationMarkers :
                   activeCheck'.result =
                     isSubscriptionActive(WithMarkers(subscriptions, m), u, NowMs,
                                          activeCheck'.failed)
              /\ ( /\ ~activeCheck'.failed
                   /\ \E r \in RowsOf(subscriptions, u) :
                        /\ r.cancel_at_period_end
                        /\ r.status = "active"
                        /\ Later(r.current_period_end, NowMs) )
                 => activeCheck'.result ]_vars

\* a check of u1 answered true while u1's row is set to cancel at period end
C10_Witness ==
    /\ activeCheck = [userId |-> "u1", failed |-> FALSE, result |-> TRUE]
    /\ HasRow(subscriptions, "u1")
    /\ RowOf(subscriptions, "u1").cancel_at_period_end
    /\ RowOf(subscriptions, "u1").canceled_at # Null
    /\ ActiveRow("u1")

\* C11 as claimed: every request the middleware passes through to a
\* /finance path belongs to a session user whose row has status 'active'
\* and current_period_end later than now; a user whose row is 'active'
\* with a period that has ended is not passed through.
C11_Original ==
    [][ \A path \in Paths :
          (Middleware(path) /\ StartsWithFinance(path)
                            /\ page'.result = PassThrough) =>
              /\ session # Null
              /\ ActiveRow(session[1]) ]_vars

Range(seq) == { seq[i] : i \in DOMAIN seq }

\* slot h sends the response to the request it holds
Responds(h) == handler[h] # Idle /\ handler'[h] = Idle

\* C12 as claimed: for every event whose signature verifies, the handler
\* responds 200 {received: true}, whatever the outcome of the projection
\* and of the store write, a failed store write included.
C12_Original ==
    [][ \A h \in Handlers :
          (Responds(h) /\ Genuine(handler[h].request)) =>
              response'[h] = [status |-> 200, body |-> [received |-> TRUE]] ]_vars

\* C13 as claimed: a verified created/updated event without metadata.userId
\* is dropped: the store is left unchanged and the answer is not an error
\* status, which would make the provider send the event again.
C13_Original ==
    [][ \A h \in Handlers :
          ( /\ Responds(h)
            /\ Genuine(handler[h].request)
            /\ handler[h].request.rawBody.type \in SubscriptionEventTypes
            /\ handler[h].request.rawBody.object.metadata.userId = NoUserId ) =>
              /\ subscriptions' = subscriptions
              /\ response'[h].status \in 200 .. 299 ]_vars

\* guarded handler g takes the delivery req
Delivers(g, req) ==
    IF g = "moduleSet" THEN POSTWithModuleGuard(req) ELSE POSTWithLocalGuard(req)

\* the lines the step appended to the console of g
NewLines(g) ==
    SubSeq(guard'[g].console, Len(guard[g].console) + 1, Len(guard'[g].console))

\* C14 as claimed: a verified event that the process already handled is
\* detected as a duplicate, is not processed again and is answered with
\* success; the first delivery of an event is never skipped.
C14_Original ==
    [][ \A g \in GuardedHandlers, req \in GuardRequests :
          (Delivers(g, req) /\ req.signature = Sign(req.rawBody, WebhookSecret)) =>
              /\ guard'[g].response = Received
              /\ IF req.rawBody.id \in guard[g].handled
                 THEN /\ ProcessingLine(req.rawBody) \notin Range(NewLines(g))
                      /\ \E line \in Range(NewLines(g)) :
                           line[2] = "Duplicate event detected:"
                 ELSE NewLines(g) = <<ProcessingLine(req.rawBody)>> ]_vars

\* slot h is about to apply the upsert of a created/updated event
AppliesUpsert(h) ==
    /\ handler[h].pc = "db"
    /\ handler[h].call.op = "upsert"
    /\ DbApply(h)

\* C15: last write wins. Whatever row the user had, and however the
\* deliveries for the user overlap, the upsert of a created/updated event
\* leaves exactly one row for the user, which carries every field of that
\* one event and the updated_at of that write, and nothing of an earlier
\* event; the row then stays as written until the next write is applied.
C15_LastWriteWins ==
    [][ /\ \A h \in Handlers :
             AppliesUpsert(h) =>
                 LET u == handler[h].call.values.user_id
                     o == handler[h].request.rawBody.object
                 IN  /\ Cardinality(RowsOf(subscriptions', u)) = 1
                     /\ Mirrors(RowOf(subscriptions', u), o, u)
                     /\ RowOf(subscriptions', u).updated_at
                          = handler[h].call.values.updated_at
                     /\ DOMAIN RowOf(subscriptions', u)
                          = DOMAIN handler[h].call.values
        /\ subscriptions' # subscriptions =>
             \E h \in Handlers : handler[h].pc = "db" /\ DbApply(h) ]_vars

\* both slots hold the upsert of a different event for u1, whose row was
\* written from an event with a cancellation date that one of the two
\* events lacks
C15_Witness ==
    /\ \A h \in Handlers : handler[h].pc = "db" /\ handler[h].call.op = "upsert"
    /\ handler["h1"].request.rawBody.object # handler["h2"].request.rawBody.object
    /\ HasRow(subscriptions, "u1")
    /\ RowOf(subscriptions, "u1").canceled_at # Null
    /\ handler["h1"].call.values.canceled_at = Null
    /\ handler["h1"].call.values.stripe_subscription_id
         # RowOf(subscriptions, "u1").stripe_subscription_id

\* C16 as claimed: when the store write that the handler awaits before it
\* responds fails, the failure is reported to the caller with a 500-class
\* status.
C16_Original ==
    [][ \A h \in Handlers :
          DbError(h) => response'[h].status \in 500 .. 599 ]_vars

\* the lines the step appended to the console of slot h
Appended(h) == SubSeq(console'[h], Len(console[h]) + 1, Len(console'[h]))

\* C17 as claimed: in the acknowledge-then-process handler, a failure of
\* the detached processing, a store write that returns an error included,
\* is logged as an error and is never reported as a successful processing,
\* and the response already sent stays as it was.
C17_Original ==
    [][ \A h \in Handlers :
          (DetachedError(h) \/ DetachedThrow(h)) =>
              /\ \E line \in Range(Appended(h)) : line[1] = "error"
              /\ Log("Subscription processed successfully:") \notin Range(Appended(h))
              /\ response'[h] = response[h] ]_vars

\* the stored text is the instant exactly t seconds after the epoch
StoresInstant(stored, t) ==
    /\ stored # Null
    /\ stored[2] \in 0 .. 999
    /\ stored[1] * 1000 + stored[2] = t * 1000

\* the stored value of a nullable timestamp: null exactly when the event
\* carries no value x, and otherwise the instant x seconds after the epoch
StoresNullable(stored, x) ==
    IF x = Null THEN stored = Null ELSE StoresInstant(stored, x[1])

\* C18: after a created/updated event is written, each of the row's
\* current_period_start, current_period_end, canceled_at and cancel_at is
\* the instant exactly t seconds (t * 1000 milliseconds) after the epoch,
\* for the event's epoch-seconds value t of that field, and canceled_at and
\* cancel_at are null exactly when the event carries no value for them.
C18_TimestampConversion ==
    [][ \A h \in Handlers :
          AppliesUpsert(h) =>
              LET o == handler[h].request.rawBody.object
                  r == RowOf(subscriptions', handler[h].call.values.user_id)
              IN  /\ StoresInstant(r.current_period_start, o.current_period_start)
                  /\ StoresInstant(r.current_period_end, o.current_period_end)
                  /\ StoresNullable(r.canceled_at, o.canceled_at)
                  /\ StoresNullable(r.cancel_at, o.cancel_at) ]_vars

\* u1's row was written from an event that carries both cancellation
\* dates, u2's from an event that carries neither
C18_Witness ==
    /\ HasRow(subscriptions, "u1") /\ HasRow(subscriptions, "u2")
    /\ RowOf(subscriptions, "u1").canceled_at = <<MaxEpoch - 1, 0>>
    /\ RowOf(subscriptions, "u1").cancel_at = <<MaxEpoch, 0>>
    /\ RowOf(subscriptions, "u2").status = "active"
    /\ RowOf(subscriptions, "u2").canceled_at = Null
    /\ RowOf(subscriptions, "u2").cancel_at = Null

\* C19 as claimed: a verified invoice.payment_failed event is acted on: a
\* stored row of the invoice's customer gets status 'past_due' and keeps
\* its period bounds, and without such a row the table is unchanged.
C19_Original ==
    [][ \A h \in Handlers :
          ( /\ Responds(h)
            /\ Genuine(handler[h].request)
            /\ handler[h].request.rawBody.type = "invoice.payment_failed" ) =>
              LET customerId == handler[h].request.rawBody.object.customer
                  stored == { r \in subscriptions : r.stripe_customer_id = customerId }
              IN  IF stored = {}
                  THEN subscriptions' = subscriptions
                  ELSE \A r \in stored :
                         \E q \in RowsOf(subscriptions', r.user_id) :
                             /\ q.status = "past_due"
                             /\ q.current_period_start = r.current_period_start
                             /\ q.current_period_end = r.current_period_end ]_vars

\* C20: the OAuth callback always answers with a redirect: to /dashboard
\* when a code is present and its exchange returned a session; to
\* /auth/login with error=no_code when the code is missing, with
\* error=session_error when the exchange failed, and with
\* error=callback_error when something else threw; it never redirects to
\* /dashboard without a successful exchange.
C20_CallbackRedirects ==
    [][ (page' # page /\ page'.request.route = "callback") =>
          LET r == page'.result
              code == page'.request.code
              thrown == page'.thrown
              present == code # Null /\ code # Some("")
              toLogin(error) == r.pathname = "/auth/login" /\ r.error = error
          IN  /\ r.kind = "redirect"
              /\ r.pathname \in {"/dashboard", "/auth/login"}
              /\ r.pathname = "/dashboard" =>
                    /\ present /\ ~thrown /\ page'.exchange = "session"
                    /\ session' = Some(UserOfCode(code[1]))
                    /\ r.error = ""
              /\ (~thrown /\ present /\ page'.exchange = "session") =>
                    r.pathname = "/dashboard"
              /\ (~thrown /\ ~present) => toLogin("no_code")
              /\ (~thrown /\ present /\ page'.exchange # "session") =>
                    toLogin("session_error")
              /\ thrown => toLogin("callback_error")
              /\ r.pathname # "/dashboard" => session' = session ]_vars

\* a signed-in browser came back with a code whose exchange the identity
\* provider refused, and was sent to the login page
C20_Witness ==
    /\ page.request = [route |-> "callback", code |-> Some("code_u2")]
    /\ page.thrown = FALSE
    /\ page.exchange = "error"
    /\ page.result = Redirect("/auth/login", "session_error", "message")
    /\ session = Some("u1")

\* the step is a POST to /api/create-checkout-session getting its answer
AnswersCheckout ==
    checkout' # checkout /\ checkout'.route = "create-checkout-session"

\* C21 as claimed: every POST to /api/create-checkout-session ends with a
\* JSON response that carries a sessionId or an error; a request without
\* userId gets an error and creates no checkout session at the provider; a
\* provider failure gets an error response, not an unhandled exception.
C21_Original ==
    [][ AnswersCheckout =>
          /\ DOMAIN checkout'.response.body \in {{"sessionId"}, {"error"}}
          /\ ~TruthyString(checkout'.body.userId) =>
                /\ DOMAIN checkout'.response.body = {"error"}
                /\ provider' = provider ]_vars

\* the user a checkout session was asked for: the handlers pass the
\* request's userId on as client_reference_id or as metadata.userId
UserOfSession(s) ==
    IF TruthyString(s.client_reference_id) THEN s.client_reference_id
    ELSE s.metadata.userId

\* C22 as claimed: a checkout session created for a request with userId u
\* attaches u as metadata.userId of the resulting subscription, and the
\* webhook handler resolves the created event of that subscription to a
\* row with user_id = u.
C22_Original ==
    [][ \A h \in Handlers :
          Handles(h) =>
            \A s \in provider :
              ( /\ TruthyString(UserOfSession(s))
                /\ handler[h].request = CreatedDelivery(s) ) =>
                  /\ SubscriptionOf(s).metadata.userId = UserOfSession(s)
                  /\ handler'[h].pc = "db"
                  /\ handler'[h].call.op = "upsert"
                  /\ handler'[h].call.values.user_id = UserOfSession(s) ]_vars

\* C23: isSubscriptionActive fails closed: when its query returns an error,
\* or the table holds no row of the user, it returns false.
C23_FailsClosed ==
    [][ \A u \in Users :
          ( /\ CheckSubscription(u)
            /\ activeCheck'.failed \/ ~HasRow(subscriptions, u) ) =>
              ~activeCheck'.result ]_vars

\* a check of u1 whose query failed answered false while u1's row is
\* 'active' with a period that has not ended
C23_Witness ==
    /\ activeCheck = [userId |-> "u1", failed |-> TRUE, result |-> FALSE]
    /\ ActiveRow("u1")

\* the step is the middleware answering a request
AnswersPage == page' # page /\ page'.request.route = "middleware"

\* C24: the middleware fails secure on /finance paths: without a session
\* the request is redirected to /auth/login; with a session whose
\* subscription lookup errors, finds no row, or finds a status other than
\* 'active' it is redirected to /dashboard; any other middleware error
\* redirects to /auth/login; none of these requests is passed through.
C24_FinanceFailsSecure ==
    [][ (AnswersPage /\ StartsWithFinance(page'.request.path)) =>
          LET r == page'.result
              rows == IF session = Null THEN {} ELSE RowsOf(subscriptions, session[1])
              refused == \/ page'.failed
                         \/ rows = {}
                         \/ \E row \in rows : row.status # "active"
          IN  /\ page'.thrown => r = RedirectTo("/auth/login")
              /\ (~page'.thrown /\ session = Null) => r = RedirectTo("/auth/login")
              /\ (~page'.thrown /\ session # Null /\ refused) =>
                    r = RedirectTo("/dashboard")
              /\ (page'.thrown \/ session = Null \/ refused) => r # PassThrough ]_vars

\* u1, whose row is 'active', asked for /finance while the subscriptions
\* query failed, and was sent to the dashboard
C24_Witness ==
    /\ page.request = [route |-> "middleware", path |-> "/finance"]
    /\ ~page.thrown /\ page.failed
    /\ page.result = RedirectTo("/dashboard")
    /\ session = Some("u1")
    /\ \E row \in RowsOf(subscriptions, "u1") : row.status = "active"

\* C25 as claimed: every request to a /dashboard path that the middleware
\* passes through has a session; a request without a session is redirected.
C25_Original ==
    [][ (AnswersPage /\ page'.request.path = "/dashboard") =>
          /\ page'.result = PassThrough => session # Null
          /\ session = Null => page'.result.kind = "redirect" ]_vars

\* slot h's cancellation update is executed by the database
AppliesCancel(h) ==
    /\ handler[h].pc = "db"
    /\ handler[h].call.op = "update"
    /\ DbApply(h)

\* no row of user u has a status other than 'canceled'
Canceled(rows, u) == \A r \in RowsOf(rows, u) : r.status = "canceled"

\* C26: after a deleted event for user u has been applied, and until a
\* created/updated event for u is applied, isSubscriptionActive(u) returns
\* false and the middleware does not pass u's /finance requests through,
\* even while the stored current_period_end is still in the future: the
\* applied cancellation leaves u canceled, every step but an applied upsert
\* for u keeps u canceled, and a canceled u is refused by both checks.
C26_CanceledHasNoAccess ==
    [][ \A u \in Users :
          /\ \A h \in Handlers :
               (AppliesCancel(h) /\ handler[h].call.match = u) =>
                   Canceled(subscriptions', u)
          /\ ( /\ Canceled(subscriptions, u)
               /\ ~\E h \in Handlers :
                     AppliesUpsert(h) /\ handler[h].call.values.user_id = u ) =>
                 Canceled(subscriptions', u)
          /\ (Canceled(subscriptions, u) /\ CheckSubscription(u)) =>
                 ~activeCheck'.result
          /\ ( /\ Canceled(subscriptions, u)
               /\ session = Some(u)
               /\ AnswersPage
               /\ StartsWithFinance(page'.request.path) ) =>
                 page'.result # PassThrough ]_vars

\* u1's row is canceled with a period that has not ended; the last check
\* of u1 answered false and u1's last /finance request was sent to the
\* dashboard, both without a query failure
C26_Witness ==
    /\ HasRow(subscriptions, "u1")
    /\ RowOf(subscriptions, "u1").status = "canceled"
    /\ Later(RowOf(subscriptions, "u1").current_period_end, NowMs)
    /\ activeCheck = [userId |-> "u1", failed |-> FALSE, result |-> FALSE]
    /\ session = Some("u1")
    /\ page.request = [route |-> "middleware", path |-> "/finance"]
    /\ ~page.thrown /\ ~page.failed
    /\ page.result = RedirectTo("/dashboard")

\* C27 as claimed: once a deleted event for a user has been applied, a
\* created/updated event of the same subscription that is processed
\* afterwards and is older than the deletion (a provider subscription that
\* has ended never runs again, so every event that reports it running is
\* older) does not change the row's status away from 'canceled'.
C27_Original ==
    [][ \A h \in Handlers :
          AppliesUpsert(h) =>
            LET object == handler[h].request.rawBody.object
                u == handler[h].call.values.user_id
            IN  \A r \in RowsOf(subscriptions, u) :
                  ( /\ r.status = "canceled"
                    /\ r.stripe_subscription_id = object.id
                    /\ object.status # "canceled" ) =>
                      \A q \in RowsOf(subscriptions', u) : q.status = "canceled" ]_vars

\* the provider's customer ids
CustomerIds == {FirstContract.customer, SecondContract.customer}

\* C28 as claimed: every row a handler writes to the subscriptions table
\* has a user_id that is the metadata.userId of the verified event that
\* wrote it; a provider customer id is never stored as user_id.
C28_Original ==
    [][ \A h \in Handlers :
          (handler[h].pc \in {"db", "detached"} /\ handler'[h] = Idle) =>
              \A r \in subscriptions' \ subscriptions :
                  /\ Genuine(handler[h].request)
                  /\ r.user_id = handler[h].request.rawBody.object.metadata.userId
                  /\ r.user_id \notin CustomerIds ]_vars

C30_Original == (nav.stage = "middleware") ~> (nav.stage = "rendered")

====
